---------------------------- MODULE Spec2Model ----------------------------
(***************************************************************************)
(* A model of fuzzypicker's FuzzyPicker<T> (src/src/lib.rs): the picker's  *)
(* fields, the stdout buffer the crossterm commands are queued into, the   *)
(* terminal mode those commands switch once they are flushed, and one      *)
(* action per public method and per event the loop of pick() dispatches.   *)
(*                                                                         *)
(* Three specifications: Spec, the picker used for any number of calls on  *)
(* a terminal backend that reports no failure; SpecIO, one call of pick on *)
(* a backend that may fail at any operation; SpecRank, the ranking of      *)
(* render_frame on any candidate list, prompt and matcher answers.         *)
(*                                                                         *)
(* Strings are sequences of one-character strings.  A Rust Option is a     *)
(* sequence of length at most one: <<>> is None and <<x>> is Some(x).      *)
(* Vec indices are 0-based in the code and sequences 1-based here, so      *)
(* v[i] of the code is v[i + 1] of the model.                              *)
(***************************************************************************)
EXTENDS Integers, Sequences, FiniteSets, TLC

VARIABLES
    items,            \* self.items: Vec<T>
    display_items,    \* self.display_items: Vec<String>
    num_of_items,     \* self.num_of_items: usize
    prompt,           \* self.prompt: String
    selected,         \* self.selected: usize
    start_index,      \* self.start_index: usize
    end_index,        \* self.end_index: usize
    matcher,          \* self.matcher: the scores the fuzzy matcher returns
    stdout,           \* self.stdout: the mode commands queued and not yet flushed
    term,             \* the terminal's mode: [alt, mouse]
    height,           \* the terminal's number of rows
    faulty,           \* whether the terminal backend may report an I/O failure
    pc,               \* "idle" (outside pick), "active" (in its loop), "panicked"
    result,           \* what the last call of pick returned
    last              \* the last step: [ev, io, rendered]

vars == <<items, display_items, num_of_items, prompt, selected, start_index,
          end_index, matcher, stdout, term, height, faulty, pc, result,
          last>>

picker == <<items, display_items, num_of_items, prompt, selected, start_index,
            end_index>>

(***************************************************************************)
(* Bounds of the model.                                                    *)
(***************************************************************************)
MaxItems == 3       \* longest candidate list handed to set_items
MaxPrompt == 2      \* longest prompt typed
MaxHeight == 3      \* tallest terminal
MaxScore == 1       \* highest score of the matchers the ranking is checked on
MaxRounds == 2      \* most round trips of the cursor looked at
MaxUnflushed == 3   \* pairs of commands a call of pick may find buffered

(***************************************************************************)
(* Program constants.                                                      *)
(***************************************************************************)
ScrollStep == 2
U16Mod == 65536
StdoutCap == 1024   \* bytes the buffer of std::io::Stdout holds

None == <<>>
Some(x) == <<x>>

(***************************************************************************)
(* Candidates: a value of T and the text its Display writes.  Two values   *)
(* may display alike, and two displays may differ only in case.            *)
(***************************************************************************)
CandSeq ==
    << [id |-> 1, disp |-> <<"b">>],
       [id |-> 2, disp |-> <<"A", "b">>],
       [id |-> 3, disp |-> <<"a", "b">>],
       [id |-> 4, disp |-> <<"a">>] >>

Cands == {CandSeq[i] : i \in 1..Len(CandSeq)}

KeyChars == {"A", "z"}

RECURSIVE SeqsUpTo(_, _)
SeqsUpTo(S, n) ==
    IF n = 0 THEN {<<>>}
    ELSE LET shorter == SeqsUpTo(S, n - 1)
         IN  shorter \cup {Append(s, x) : s \in {t \in shorter : Len(t) = n - 1}, x \in S}

\* the candidate lists handed to set_items: the prefixes of the candidates
\* taken in turn
Catalogue == [i \in 1..MaxItems |-> CandSeq[((i - 1) % Len(CandSeq)) + 1]]
ItemLists == {SubSeq(Catalogue, 1, n) : n \in 0..MaxItems}
Prompts == SeqsUpTo(KeyChars, MaxPrompt)

\* format!("{}", item)
Display(item) == item.disp

\* char::to_lowercase on the characters of the model
Lower(ch) ==
    CASE ch = "A" -> "a"
      [] ch = "B" -> "b"
      [] OTHER -> ch

\* str::to_lowercase
to_lowercase(s) == [i \in 1..Len(s) |-> Lower(s[i])]

\* Option::unwrap_or_default on Option<i64>
unwrap_or_default(o) == IF o = None THEN 0 ELSE o[1]

\* self.matcher.fuzzy_match(choice, pattern): the matcher's answer, Option<i64>
fuzzy_match(m, choice, pattern) == m[<<choice, pattern>>]

\* the score render_frame reads for a display string under a prompt
ScoreOf(m, s, p) ==
    unwrap_or_default(fuzzy_match(m, to_lowercase(s), to_lowercase(p)))


(***************************************************************************)
(* render_frame's ranking (lines 283-313): filter_map, then sort_by_key.   *)
(***************************************************************************)

\* a mutant of FilterClosure: the score is tested with > 0
FilterClosurePositive(m, item, p) ==
    IF p = <<>> \/ ScoreOf(m, Display(item), p) > 0
    THEN Some(Display(item))
    ELSE None

\* a mutant of FilterClosure: the test of an empty prompt is left out
FilterClosureNoEmptyCheck(m, item, p) ==
    IF ScoreOf(m, Display(item), p) # 0
    THEN Some(Display(item))
    ELSE None

\* the closure of filter_map (lines 284-294): Some(display_str) or None
FilterClosure(m, item, p) ==
    IF p = <<>> \/ ScoreOf(m, Display(item), p) # 0
    THEN Some(Display(item))
    ELSE None

\* Iterator::filter_map(..).collect() (lines 283-295)
RECURSIVE FilterMap(_, _, _)
FilterMap(m, its, p) ==
    IF its = <<>> THEN <<>>
    ELSE FilterClosure(m, Head(its), p) \o FilterMap(m, Tail(its), p)

\* the key of sort_by_key (lines 297-302)
SortKey(m, s, p) == 0 - ScoreOf(m, s, p)

\* a mutant of InsertByKey: an unstable sort, s goes before the elements of
\* its own key
RECURSIVE InsertByKeyUnstable(_, _, _, _)
InsertByKeyUnstable(m, p, sorted, s) ==
    IF sorted = <<>> THEN <<s>>
    ELSE IF SortKey(m, Head(sorted), p) < SortKey(m, s, p)
         THEN <<Head(sorted)>> \o InsertByKeyUnstable(m, p, Tail(sorted), s)
         ELSE <<s>> \o sorted

\* one insertion of a stable sort: s goes behind every element whose key is
\* not greater than its own
RECURSIVE InsertByKey(_, _, _, _)
InsertByKey(m, p, sorted, s) ==
    IF sorted = <<>> THEN <<s>>
    ELSE IF SortKey(m, Head(sorted), p) <= SortKey(m, s, p)
         THEN <<Head(sorted)>> \o InsertByKey(m, p, Tail(sorted), s)
         ELSE <<s>> \o sorted

\* slice::sort_by_key, a stable sort (line 297)
RECURSIVE SortByKey(_, _, _)
SortByKey(m, p, v) ==
    IF v = <<>> THEN <<>>
    ELSE InsertByKey(m, p, SortByKey(m, p, SubSeq(v, 1, Len(v) - 1)), v[Len(v)])

\* self.display_items after lines 283-302
RankedItems(m, its, p) == SortByKey(m, p, FilterMap(m, its, p))

(***************************************************************************)
(* The terminal.  queue() writes a command into the buffer of stdout; the  *)
(* terminal obeys it when the buffer is written out: by flush(), or when   *)
(* the bytes of the next command do not fit in what is left of the buffer. *)
(* Only the commands that switch the terminal's mode are kept in the       *)
(* model's buffer, and before them "CallerOutput", what the caller may     *)
(* have printed without a newline before the picker was built.             *)
(***************************************************************************)
ModeCommands ==
    {"EnterAlternateScreen", "EnableMouseCapture",
     "LeaveAlternateScreen", "DisableMouseCapture"}

\* the terminal obeying one command
Obey(t, cmd) ==
    CASE cmd = "EnterAlternateScreen" -> [t EXCEPT !.alt = TRUE]
      [] cmd = "LeaveAlternateScreen" -> [t EXCEPT !.alt = FALSE]
      [] cmd = "EnableMouseCapture" -> [t EXCEPT !.mouse = TRUE]
      [] cmd = "DisableMouseCapture" -> [t EXCEPT !.mouse = FALSE]
      [] OTHER -> t

RECURSIVE Deliver(_, _)
Deliver(t, cmds) ==
    IF cmds = <<>> THEN t ELSE Deliver(Obey(t, Head(cmds)), Tail(cmds))

\* the bytes a command writes: ESC [ ? 1049 h and ESC [ ? 1049 l for the
\* alternate screen, five such sequences for mouse capture; the caller's
\* output is of a size the model does not know, one byte at least
Bytes(cmd) ==
    CASE cmd = "EnterAlternateScreen" -> 8
      [] cmd = "LeaveAlternateScreen" -> 8
      [] cmd = "EnableMouseCapture" -> 40
      [] cmd = "DisableMouseCapture" -> 40
      [] OTHER -> 1

RECURSIVE BufBytes(_)
BufBytes(buf) ==
    IF buf = <<>> THEN 0 ELSE Bytes(Head(buf)) + BufBytes(Tail(buf))

\* the buffer written out whole
Spill(o, cmd) == [buf |-> <<cmd>>, term |-> Deliver(o.term, o.buf)]

\* stdout.queue(cmd): the command is written into the buffer, which is
\* written out first when the command does not fit
Queue(o, cmd) ==
    IF BufBytes(o.buf) + Bytes(cmd) > StdoutCap
    THEN Spill(o, cmd)
    ELSE [buf |-> Append(o.buf, cmd), term |-> o.term]

\* the buffer still holds output of the caller
HasCallerOutput(o) == o.buf # <<>> /\ Head(o.buf) = "CallerOutput"

\* stdout.queue(cmd) on a buffer that may hold output of the caller: with
\* it the command may be the one that does not fit
Queued(o, cmd) ==
    {Queue(o, cmd)} \cup (IF HasCallerOutput(o) THEN {Spill(o, cmd)} ELSE {})

\* stdout.flush() (line 334)
Flush(o) == [buf |-> <<>>, term |-> Deliver(o.term, o.buf)]

\* queue(cmd) writes to the backend, and so can fail, only when the
\* command does not fit
CanSpill(o, cmd) ==
    HasCallerOutput(o) \/ BufBytes(o.buf) + Bytes(cmd) > StdoutCap

\* a write of the buffer that fails: the backend took the first k of what
\* was buffered, the rest stays in the buffer.  When the mode commands are
\* all of the buffer's end (more = FALSE) it did not take them all.
Failed(o, more) ==
    {[buf |-> SubSeq(o.buf, k + 1, Len(o.buf)),
      term |-> Deliver(o.term, SubSeq(o.buf, 1, k))] :
        k \in 0..(IF more \/ o.buf = <<>> THEN Len(o.buf)
                  ELSE Len(o.buf) - 1)}

Out == [buf |-> stdout, term |-> term]

(***************************************************************************)
(* Results of pick: Result<Option<T>, Box<dyn Error>>, or a panic.         *)
(***************************************************************************)
Pending == [kind |-> "Pending", val |-> None]
Ok(v) == [kind |-> "Ok", val |-> v]
Err == [kind |-> "Err", val |-> None]
Panicked == [kind |-> "Panic", val |-> None]

Step(ev, io, rendered) == [ev |-> ev, io |-> io, rendered |-> rendered]


(***************************************************************************)
(* The matcher.  SkimMatcherV2 (line 98) is an external crate: the model   *)
(* takes its answers from a table fixed when the picker is built.  The     *)
(* tables of a session answer as SkimMatcherV2 does: Some(0) for the empty *)
(* pattern, None when the pattern is no subsequence of the choice, and a   *)
(* positive score otherwise.                                               *)
(***************************************************************************)
ScoreVals == {1, 2}

LowerChoices == {to_lowercase(Display(c)) : c \in Cands}
LowerPatterns == {to_lowercase(p) : p \in Prompts}

RECURSIVE IsSubseq(_, _)
IsSubseq(pattern, choice) ==
    IF pattern = <<>> THEN TRUE
    ELSE IF choice = <<>> THEN FALSE
    ELSE IF Head(pattern) = Head(choice)
         THEN IsSubseq(Tail(pattern), Tail(choice))
         ELSE IsSubseq(pattern, Tail(choice))

MatchingPairs ==
    {d \in LowerChoices \X LowerPatterns : d[2] # <<>> /\ IsSubseq(d[2], d[1])}

SkimTable(w) ==
    [d \in LowerChoices \X LowerPatterns |->
        IF d[2] = <<>> THEN Some(0)
        ELSE IF d \in MatchingPairs THEN Some(w[d]) ELSE None]

SkimMatchers == {SkimTable(w) : w \in [MatchingPairs -> ScoreVals]}

(***************************************************************************)
(* FuzzyPicker::new (lines 94-107).                                        *)
(***************************************************************************)
\* the places a command of the set S may fail: none on a reliable backend
IoChoices(S) == IF faulty THEN S \cup {"none"} ELSE {"none"}

New ==
    /\ items = <<>>
    /\ display_items = <<>>
    /\ num_of_items = 0
    /\ prompt = <<>>
    /\ selected = 0
    /\ start_index = 0
    /\ height \in 0..MaxHeight
    /\ matcher \in SkimMatchers
    /\ term = [alt |-> FALSE, mouse |-> FALSE]
    /\ last = Step("new", "none", FALSE)
    /\ \E overflow_checks \in BOOLEAN :
        IF height = 0 /\ overflow_checks
        THEN /\ end_index = 0
             /\ pc = "panicked"
             /\ result = Panicked
        ELSE /\ end_index = (height - 1) % U16Mod
             /\ pc = "idle"
             /\ result = Pending

\* the picker built on a terminal whose backend reports no failure, by a
\* caller that left nothing in the buffer of stdout
Init == New /\ faulty = FALSE /\ stdout = <<>>

\* the picker built on a terminal whose backend may fail at any write, by
\* a caller that may have left output in the buffer of stdout
InitIO == New /\ faulty = TRUE /\ stdout \in {<<>>, <<"CallerOutput">>}

\* FuzzyPicker::set_items (lines 126-128)
set_items ==
    /\ pc = "idle"
    /\ \E its \in ItemLists : items' = its
    /\ last' = Step("set_items", "none", FALSE)
    /\ UNCHANGED <<display_items, num_of_items, prompt, selected, start_index,
                   end_index, matcher, stdout, term, height, faulty, pc,
                   result>>

\* FuzzyPicker::reset (lines 148-155)
reset ==
    /\ pc = "idle"
    /\ items' = <<>>
    /\ display_items' = <<>>
    /\ num_of_items' = 0
    /\ prompt' = <<>>
    /\ selected' = 0
    /\ start_index' = 0
    /\ last' = Step("reset", "none", FALSE)
    /\ UNCHANGED <<end_index, matcher, stdout, term, height, faulty, pc,
                   result>>

(***************************************************************************)
(* FuzzyPicker::pick (lines 196-275).  PickEnter is the call up to the     *)
(* loop; every other action is one turn of the loop: poll, read, the arm   *)
(* of the event read, and render_frame.                                    *)
(***************************************************************************)

\* lines 197-200: queue(EnterAlternateScreen)?.queue(EnableMouseCapture)?
\* The buffers and terminals it may leave when the command io fails.
Setup(o, io) ==
    IF io = "EnterAlternateScreen"
    THEN IF CanSpill(o, io) THEN Failed(o, FALSE) ELSE {}
    ELSE UNION {IF io = "EnableMouseCapture"
                THEN IF CanSpill(o1, io) THEN Failed(o1, FALSE) ELSE {}
                ELSE Queued(o1, "EnableMouseCapture") :
                    o1 \in Queued(o, "EnterAlternateScreen")}

\* On a backend that may fail the model follows one call of pick; on a
\* reliable one, the calls that find at most MaxUnflushed pairs of commands
\* of earlier calls still in the buffer.
PickEnter ==
    /\ pc = "idle"
    /\ faulty => result = Pending
    /\ Len(stdout) <= 2 * MaxUnflushed
    /\ \E io \in IoChoices({"EnterAlternateScreen", "EnableMouseCapture"}) :
        \E o2 \in Setup(Out, io) :
            /\ stdout' = o2.buf
            /\ term' = o2.term
            /\ pc' = IF io = "none" THEN "active" ELSE "idle"
            /\ result' = IF io = "none" THEN Pending ELSE Err
            /\ last' = Step("pick", io, FALSE)
    /\ UNCHANGED <<picker, matcher, height, faulty>>

\* poll(..)? or read()? fails (lines 202-203): pick returns the error
PollReadFail ==
    /\ pc = "active"
    /\ faulty
    /\ \E io \in {"poll", "read"} : last' = Step("none", io, FALSE)
    /\ pc' = "idle"
    /\ result' = Err
    /\ UNCHANGED <<picker, matcher, stdout, term, height, faulty>>

\* a panic inside the loop: the call never returns
Panic(ev, o) ==
    /\ pc' = "panicked"
    /\ result' = Panicked
    /\ last' = Step(ev, "none", FALSE)
    /\ stdout' = o.buf
    /\ term' = o.term
    /\ UNCHANGED <<picker, matcher, height, faulty>>

\* the buffer and terminal a frame may leave.  A frame of the model's
\* heights and candidates fits in the buffer, so that its commands are
\* written out in flush() unless output of the caller is in the way; what
\* remains of a frame that failed is not kept in the model's buffer.
FrameOut(o, io) ==
    IF io = "none" THEN {Flush(o)}
    ELSE IF io = "flush" \/ HasCallerOutput(o) THEN Failed(o, TRUE)
    ELSE {}

\* render_frame (lines 277-336), which ends every turn of the loop that did
\* not break, on the fields as the event's arm left them.  io is where a
\* command fails: "header" in lines 278-281, before the ranking; "rows" in
\* lines 319-333, after it; "flush" in line 334.
render_frame(ev, p, sel, s, e, h) ==
    \E io \in IoChoices({"header", "rows", "flush"}) :
      \E o2 \in FrameOut(Out, io) :
        /\ prompt' = p
        /\ selected' = sel
        /\ start_index' = s
        /\ end_index' = e
        /\ height' = h
        /\ display_items' = IF io = "header" THEN display_items
                            ELSE RankedItems(matcher, items, p)
        /\ num_of_items' = IF io = "header" THEN num_of_items
                           ELSE Len(display_items')
        /\ stdout' = o2.buf
        /\ term' = o2.term
        /\ pc' = IF io = "none" THEN "active" ELSE "idle"
        /\ result' = IF io = "none" THEN Pending ELSE Err
        /\ last' = Step(ev, io, io = "none")
        /\ UNCHANGED <<items, matcher, faulty>>

\* poll returns false (line 202): no event, the frame is rendered
PollTimeout ==
    /\ pc = "active"
    /\ render_frame("timeout", prompt, selected, start_index, end_index, height)


\* a mutant of reset_scroll: the cursor is left where it was
reset_scroll_keeps_selected == [start_index |-> 0, selected |-> selected]

\* reset_scroll (lines 165-168): the new <<start_index, selected>>
reset_scroll == [start_index |-> 0, selected |-> 0]

\* KeyCode::Char(ch) (lines 207-210)
KeyChar ==
    /\ pc = "active"
    /\ Len(prompt) < MaxPrompt
    /\ \E ch \in KeyChars :
        render_frame("Char", Append(prompt, ch), reset_scroll.selected,
                     reset_scroll.start_index, end_index, height)

\* a mutant of pop: the first character is removed
pop_first(str) == IF str = <<>> THEN <<>> ELSE Tail(str)

\* String::pop: the string without its last character, unchanged when empty
pop(str) == IF str = <<>> THEN <<>> ELSE SubSeq(str, 1, Len(str) - 1)

\* KeyCode::Backspace (lines 211-214)
KeyBackspace ==
    /\ pc = "active"
    /\ render_frame("Backspace", pop(prompt), reset_scroll.selected,
                    reset_scroll.start_index, end_index, height)

\* a mutant of Teardown: the failure of LeaveAlternateScreen is noticed
\* only after DisableMouseCapture is queued too
TeardownKeepsGoing(o, io) ==
    IF io = "LeaveAlternateScreen"
    THEN {Queue(f, "DisableMouseCapture") : f \in Failed(o, TRUE)}
    ELSE UNION {IF io = "DisableMouseCapture" THEN {o1}
                ELSE Queued(o1, "DisableMouseCapture") :
                    o1 \in Queued(o, "LeaveAlternateScreen")}

\* queue(LeaveAlternateScreen)?.queue(DisableMouseCapture)? (lines 216-218
\* and 228-230): the buffers and terminals it may leave when the command
\* io fails
Teardown(o, io) ==
    IF io = "LeaveAlternateScreen"
    THEN IF CanSpill(o, io) THEN Failed(o, FALSE) ELSE {}
    ELSE UNION {IF io = "DisableMouseCapture"
                THEN IF CanSpill(o1, io) THEN Failed(o1, FALSE) ELSE {}
                ELSE Queued(o1, "DisableMouseCapture") :
                    o1 \in Queued(o, "LeaveAlternateScreen")}

\* break; Ok(picked_item) (lines 219, 234, 274), or the error of a failed
\* teardown command
Return(ev, io, o, picked_item) ==
    /\ stdout' = o.buf
    /\ term' = o.term
    /\ pc' = "idle"
    /\ result' = IF io = "none" THEN Ok(picked_item) ELSE Err
    /\ last' = Step(ev, io, FALSE)
    /\ UNCHANGED <<picker, matcher, height, faulty>>

\* a mutant of KeyEsc: the arm without its break
KeyEscNoBreak ==
    /\ pc = "active"
    /\ render_frame("Esc", prompt, selected, start_index, end_index, height)

\* KeyCode::Esc (lines 215-220): picked_item is still the None of line 197
KeyEsc ==
    /\ pc = "active"
    /\ \E io \in IoChoices({"LeaveAlternateScreen", "DisableMouseCapture"}) :
        \E o2 \in Teardown(Out, io) : Return("Esc", io, o2, None)

\* prev_item (lines 157-159), for num_of_items > 0
prev_item(sel, n) == (sel + n - 1) % n

\* next_item (lines 161-163), for num_of_items > 0
next_item(sel, n) == (sel + 1) % n

\* KeyCode::Up | KeyCode::Left (lines 221-223): the remainder by zero panics
KeyUpLeft ==
    /\ pc = "active"
    /\ IF num_of_items = 0
       THEN Panic("Up", Out)
       ELSE render_frame("Up", prompt, prev_item(selected, num_of_items),
                         start_index, end_index, height)

\* KeyCode::Down | KeyCode::Right (lines 224-226)
KeyDownRight ==
    /\ pc = "active"
    /\ IF num_of_items = 0
       THEN Panic("Down", Out)
       ELSE render_frame("Down", prompt, next_item(selected, num_of_items),
                         start_index, end_index, height)

\* self.items.iter().find(|&item| format!("{item}") == target).cloned()
RECURSIVE find(_, _)
find(its, target) ==
    IF its = <<>> THEN None
    ELSE IF Display(Head(its)) = target THEN Some(Head(its))
    ELSE find(Tail(its), target)

\* the closure of find indexes display_items[selected] for the first item
\* it is called on (line 232): out of bounds, it panics
EnterPanics(its, shown, sel) == its # <<>> /\ sel >= Len(shown)

\* lines 231-233, when the index is in bounds or no item is looked at
EnterPick(its, shown, sel) ==
    IF its = <<>> THEN None ELSE find(its, shown[sel + 1])

\* KeyCode::Enter (lines 227-235)
KeyEnter ==
    /\ pc = "active"
    /\ \E io \in IoChoices({"LeaveAlternateScreen", "DisableMouseCapture"}) :
        \E o2 \in Teardown(Out, io) :
            IF io = "none" /\ EnterPanics(items, display_items, selected)
            THEN Panic("Enter", o2)
            ELSE Return("Enter", io, o2,
                        IF io = "none"
                        THEN EnterPick(items, display_items, selected)
                        ELSE None)

\* the events no arm acts on: another key (line 236), a key event that is
\* not a press (line 205), another mouse event (line 263), another event
\* (line 269)
IgnoredEvents == {"OtherKey", "KeyRelease", "OtherMouse", "OtherEvent"}

Ignored ==
    /\ pc = "active"
    /\ \E ev \in IgnoredEvents :
        render_frame("Ignored", prompt, selected, start_index, end_index,
                     height)

\* MouseEventKind::Down(MouseButton::Left) (lines 242-246), event.row: u16.
\* event.row - 1 on row 0 goes below zero: a build with overflow checks
\* panics, one without wraps to 65535; either build may be the one running.
\* num_of_items = 65535 (as u16) makes the + 1 of line 243 overflow: the
\* one build panics, the other compares the row with 0.
ClickOverflows(n) == (n % U16Mod) + 1 >= U16Mod

ClickHits(row, n) == row < ((n % U16Mod) + 1) % U16Mod

MouseLeftDown ==
    /\ pc = "active"
    /\ \E row \in 0..(height - 1), overflow_checks \in BOOLEAN :
        IF overflow_checks /\ ClickOverflows(num_of_items)
        THEN Panic("Click", Out)
        ELSE IF ~ClickHits(row, num_of_items)
        THEN render_frame("Click", prompt, selected, start_index, end_index,
                          height)
        ELSE IF row = 0 /\ overflow_checks
        THEN Panic("Click", Out)
        ELSE render_frame("Click", prompt,
                          ((row - 1) % U16Mod) + start_index,
                          start_index, end_index, height)

\* a mutant of MouseScrollUp: the cursor does not follow the window
MouseScrollUpKeepsCursor ==
    /\ pc = "active"
    /\ IF start_index > 0 /\ end_index > 0
       THEN render_frame("ScrollUp", prompt, selected,
                         start_index - ScrollStep, end_index - ScrollStep,
                         height)
       ELSE render_frame("ScrollUp", prompt, selected, start_index,
                         end_index, height)

\* MouseEventKind::ScrollUp (lines 247-254).  A usize that would go below
\* zero panics in a build with overflow checks; in one without, the model
\* keeps the negative number for the wrapped one.
MouseScrollUp ==
    /\ pc = "active"
    /\ \E overflow_checks \in BOOLEAN :
       IF start_index > 0 /\ end_index > 0
       THEN IF overflow_checks
               /\ (start_index < ScrollStep \/ end_index < ScrollStep)
            THEN Panic("ScrollUp", Out)
            ELSE render_frame("ScrollUp", prompt, start_index - ScrollStep,
                              start_index - ScrollStep,
                              end_index - ScrollStep, height)
       ELSE render_frame("ScrollUp", prompt, selected, start_index,
                         end_index, height)

\* a mutant of MouseScrollDown: only the start of the window moves
MouseScrollDownStartOnly ==
    /\ pc = "active"
    /\ IF start_index < num_of_items /\ end_index < num_of_items
       THEN render_frame("ScrollDown", prompt, start_index + ScrollStep,
                         start_index + ScrollStep, end_index, height)
       ELSE render_frame("ScrollDown", prompt, selected, start_index,
                         end_index, height)

\* MouseEventKind::ScrollDown (lines 255-262)
MouseScrollDown ==
    /\ pc = "active"
    /\ IF start_index < num_of_items /\ end_index < num_of_items
       THEN render_frame("ScrollDown", prompt, start_index + ScrollStep,
                         start_index + ScrollStep, end_index + ScrollStep,
                         height)
       ELSE render_frame("ScrollDown", prompt, selected, start_index,
                         end_index, height)

\* a mutant of Resize: the window end is counted from the top of the list
ResizeFromZero ==
    /\ pc = "active"
    /\ \E rows \in 1..MaxHeight :
        render_frame("Resize", prompt, selected, start_index, rows - 1, rows)

\* Event::Resize(_, rows) (lines 266-268), rows: u16.  rows - 1 on no rows
\* goes below zero: a build with overflow checks panics, one without wraps
\* to 65535.
Resize ==
    /\ pc = "active"
    /\ \E rows \in 0..MaxHeight, overflow_checks \in BOOLEAN :
        IF rows = 0 /\ overflow_checks
        THEN /\ pc' = "panicked"
             /\ result' = Panicked
             /\ last' = Step("Resize", "none", FALSE)
             /\ height' = rows
             /\ UNCHANGED <<picker, matcher, stdout, term, faulty>>
        ELSE render_frame("Resize", prompt, selected, start_index,
                          start_index + ((rows - 1) % U16Mod), rows)

Next ==
    \/ set_items
    \/ reset
    \/ PickEnter
    \/ PollTimeout
    \/ KeyChar
    \/ KeyBackspace
    \/ KeyEsc
    \/ KeyUpLeft
    \/ KeyDownRight
    \/ KeyEnter
    \/ Ignored
    \/ MouseLeftDown
    \/ MouseScrollUp
    \/ MouseScrollDown
    \/ Resize

Spec == Init /\ [][Next]_vars

\* the same program on a backend that may fail, for one call of pick
NextIO == Next \/ PollReadFail

SpecIO == InitIO /\ [][NextIO]_vars

(***************************************************************************)
(* The ranking of render_frame on its own: any candidate list, any prompt, *)
(* and any answers of the matcher for the prompt's pattern, an opaque      *)
(* score(choice, pattern) -> Option<i64>; then frames are rendered.        *)
(***************************************************************************)
RankLists == SeqsUpTo(Cands, MaxItems)

RankScores == {None} \cup {Some(v) : v \in (0 - 1)..MaxScore}

InitRank ==
    /\ items \in RankLists
    /\ prompt \in Prompts
    /\ matcher \in [LowerChoices \X {to_lowercase(prompt)} -> RankScores]
    /\ display_items = <<>>
    /\ num_of_items = 0
    /\ selected = 0
    /\ start_index = 0
    /\ height = MaxHeight
    /\ end_index = height - 1
    /\ stdout = <<"EnterAlternateScreen", "EnableMouseCapture">>
    /\ term = [alt |-> FALSE, mouse |-> FALSE]
    /\ faulty = FALSE
    /\ pc = "active"
    /\ result = Pending
    /\ last = Step("pick", "none", FALSE)

NextRank == PollTimeout

SpecRank == InitRank /\ [][NextRank]_vars


(***************************************************************************)
(* The claims.  A step's event and outcome are read from last; the answers *)
(* of the matcher are read from its table, not through the operators the   *)
(* ranking is modelled with.                                               *)
(***************************************************************************)

\* the display strings of the candidates, in candidate-list order
DisplaySeq(its) == [i \in 1..Len(its) |-> Display(its[i])]

\* the matcher's answer for a display string under the current prompt
Answer(s) == matcher[<<to_lowercase(s), to_lowercase(prompt)>>]

\* that answer as a score, a missing one counting as zero
Score(s) == IF Answer(s) = None THEN 0 ELSE Answer(s)[1]

\* the events of the loop other than Esc and Enter, and the poll timeout
OtherEvents ==
    {"timeout", "Char", "Backspace", "Up", "Down", "Ignored", "Click",
     "ScrollUp", "ScrollDown", "Resize"}

\* how often a command waits in a buffer
Count(buf, cmd) == Cardinality({i \in 1..Len(buf) : buf[i] = cmd})

\* C1: an Enter key press dispatched while the filtered list for the current
\* candidates and prompt is empty (or no frame was rendered yet) makes pick
\* return Ok(None), without a crash.
C1_EnterOnEmptyReturnsNone ==
    (/\ last.ev = "Enter"
     /\ last.io = "none"
     /\ (RankedItems(matcher, items, prompt) = <<>> \/ display_items = <<>>))
    => (pc = "idle" /\ result = Ok(None))

\* C2: an Enter key press dispatched while the filtered list for the current
\* candidates and prompt is not empty makes pick return Some(c), c a
\* candidate of the list whose display string is the filtered list's entry
\* at the selection cursor.
C2_EnterReturnsSelected ==
    (/\ last.ev = "Enter"
     /\ last.io = "none"
     /\ RankedItems(matcher, items, prompt) # <<>>)
    => (/\ pc = "idle"
        /\ result.kind = "Ok"
        /\ result.val # None
        /\ \E i \in 1..Len(items) : items[i] = result.val[1]
        /\ selected < Len(RankedItems(matcher, items, prompt))
        /\ Display(result.val[1])
             = RankedItems(matcher, items, prompt)[selected + 1])

\* C3: an Escape key press dispatched in an active session, the backend
\* reporting no failure, ends the loop and pick returns Ok(None): no item,
\* no error, no crash.
C3_EscYieldsNoSelection ==
    (last.ev = "Esc" /\ last.io = "none")
    => (pc = "idle" /\ result = Ok(None))

C3_Witness ==
    /\ last.ev = "Esc"
    /\ last.io = "none"
    /\ pc = "idle"
    /\ prompt # <<>>
    /\ display_items # <<>>
    /\ selected < Len(display_items)
    /\ find(items, display_items[selected + 1]) # None

\* C4: when pick returns from Escape or Enter, the terminal has left the
\* alternate screen and mouse capture is off.
C4_TerminalRestoredOnReturn ==
    (last.ev \in {"Esc", "Enter"} /\ pc = "idle" /\ result.kind = "Ok")
    => (term.alt = FALSE /\ term.mouse = FALSE)

\* C5: a step in which a backend operation fails makes pick return the
\* error: the result is Err, no frame is rendered, the terminal has obeyed
\* at most commands that were buffered before the step, an operation that
\* fails before the event is dispatched (poll, read, entering, teardown)
\* leaves the picker as it was, and no teardown command is queued past the
\* failure (LeaveAlternateScreen alone when DisableMouseCapture is the
\* command that failed).
C5_FailureAborts ==
    [][ last'.io # "none" =>
          /\ pc' = "idle"
          /\ result' = Err
          /\ ~last'.rendered
          /\ \E k \in 0..Len(stdout) :
                term' = Deliver(term, SubSeq(stdout, 1, k))
          /\ Count(stdout', "DisableMouseCapture")
               <= Count(stdout, "DisableMouseCapture")
          /\ Count(stdout', "LeaveAlternateScreen")
               <= Count(stdout, "LeaveAlternateScreen")
                  + (IF last'.io = "DisableMouseCapture" THEN 1 ELSE 0)
          /\ last'.io \notin {"header", "rows", "flush"}
               => UNCHANGED picker
          /\ last'.io \in {"poll", "read"} => UNCHANGED <<stdout, term>>
      ]_vars

C5_Witness ==
    /\ last.ev = "Enter"
    /\ last.io = "DisableMouseCapture"
    /\ result = Err
    /\ term.alt
    /\ ~term.mouse
    /\ items # <<>>
    /\ Count(stdout, "LeaveAlternateScreen") = 1

\* C6: after a render tick with a non-empty prompt, the filtered display
\* list holds exactly the display strings of the candidates whose score is
\* not zero, a missing score counting as zero: each display string as often
\* as candidates with a non-zero score display it.
C6_FilterByNonZeroScore ==
    (last.rendered /\ prompt # <<>>)
    => \A s \in {Display(c) : c \in Cands} :
         Count(display_items, s)
           = Cardinality({i \in 1..Len(items) :
                            /\ Display(items[i]) = s
                            /\ Answer(s) # None
                            /\ Answer(s)[1] # 0})

C6_Witness ==
    /\ last.rendered
    /\ prompt # <<>>
    /\ display_items # <<>>
    /\ \E i, j, k \in 1..Len(items) :
         /\ Answer(Display(items[i])) = None
         /\ Answer(Display(items[j])) = Some(0)
         /\ Answer(Display(items[k])) = Some(0 - 1)

\* C7: after a render tick with a non-empty prompt, the filtered display
\* list is in non-increasing order of score, and the candidates of one score
\* keep the order they have in the candidate list.
C7_SortedStable ==
    (last.rendered /\ prompt # <<>>)
    => /\ \A k \in 1..(Len(display_items) - 1) :
            Score(display_items[k]) >= Score(display_items[k + 1])
       /\ \A v \in ((0 - 1)..(MaxScore + 1)) \ {0} :
            LET Scores(s) == Score(s) = v
            IN  SelectSeq(display_items, Scores)
                  = SelectSeq(DisplaySeq(items), Scores)

C7_Witness ==
    /\ last.rendered
    /\ prompt # <<>>
    /\ Len(display_items) >= 3
    /\ \E k \in 1..(Len(display_items) - 1) :
         /\ display_items[k] # display_items[k + 1]
         /\ Score(display_items[k]) = Score(display_items[k + 1])
    /\ \E k \in 1..(Len(display_items) - 1) :
         Score(display_items[k]) > Score(display_items[k + 1])
    /\ \E i \in 1..(Len(items) - 1) :
         /\ Score(Display(items[i])) # 0
         /\ Score(Display(items[i])) < Score(Display(items[i + 1]))

C9_OtherEventsKeepActive ==
    (last.ev \in OtherEvents /\ last.io = "none")
    => (pc = "active" /\ last.rendered)

\* C10: after reset() on a terminal of at least one row every field of the
\* picker has its construction default, end_index being the terminal
\* height minus one.
C10_ResetRestoresDefaults ==
    (last.ev = "reset" /\ height >= 1)
    => /\ items = <<>>
       /\ display_items = <<>>
       /\ num_of_items = 0
       /\ prompt = <<>>
       /\ selected = 0
       /\ start_index = 0
       /\ end_index = height - 1

\* C11: in every state of a session whose last frame was rendered with a
\* non-empty filtered list, 0 <= selected < num_of_items.
C11_SelectedInRange ==
    (pc = "active" /\ last.rendered /\ num_of_items > 0)
    => (0 <= selected /\ selected < num_of_items)

\* C12: an Up/Left or Down/Right press while the filtered-list size is zero
\* does not fail and leaves the selection cursor where it was.
C12_NavigationOnEmptyIsNoOp ==
    [][ (last'.ev \in {"Up", "Down"} /\ num_of_items = 0)
        => (pc' = "active" /\ selected' = selected) ]_vars

\* C13: in every state on a terminal of at least one row the scroll window
\* end_index - start_index is at most the terminal height minus one.
C13_WindowWithinHeight ==
    height >= 1 => end_index - start_index <= height - 1

Min(a, b) == IF a <= b THEN a ELSE b

\* C14: a left click does not fail, and it either leaves the picker as it
\* was or moves selected to start_index + (r - 1) for a row r that shows a
\* rendered item, 1 <= r <= min(end_index, num_of_items) - start_index,
\* changing nothing else.
C14_ClickOnlyOnRenderedRows ==
    [][ last'.ev = "Click"
        => /\ pc' = "active"
           /\ UNCHANGED <<items, prompt, start_index, end_index>>
           /\ \/ selected' = selected
              \/ \E r \in 1..(Min(end_index, num_of_items) - start_index) :
                    selected' = start_index + (r - 1) ]_vars

\* C15: a scroll-down leaves start_index at most the filtered-list length,
\* and changes nothing once start_index or end_index has reached that
\* length.
C15_ScrollDownStaysInList ==
    [][ last'.ev = "ScrollDown"
        => /\ start_index' <= num_of_items'
           /\ (start_index >= num_of_items \/ end_index >= num_of_items)
              => UNCHANGED <<start_index, end_index, selected>> ]_vars

\* C16: a scroll-up does not fail and never takes start_index or end_index
\* below 0: from start_index = 0 it leaves start_index, end_index and
\* selected as they were, otherwise it lowers both bounds by exactly 2 and
\* sets selected to the new start_index.
C16_ScrollUpClamped ==
    [][ last'.ev = "ScrollUp"
        => /\ pc' = "active"
           /\ start_index' >= 0
           /\ end_index' >= 0
           /\ IF start_index = 0
              THEN UNCHANGED <<start_index, end_index, selected>>
              ELSE /\ start_index' = start_index - 2
                   /\ end_index' = end_index - 2
                   /\ selected' = start_index' ]_vars

C16_Witness ==
    /\ last.ev = "ScrollUp"
    /\ pc = "active"
    /\ start_index = 2
    /\ selected = 2
    /\ end_index = start_index + height - 1

\* C17: start_index <= end_index in every state.
C17_StartBeforeEnd == start_index <= end_index

C17_Witness ==
    /\ last.ev = "ScrollDown"
    /\ start_index > 0
    /\ start_index = end_index

\* the cursor after N round trips, a step forward then a step back
RECURSIVE DownUp(_, _, _)
DownUp(sel, n, N) ==
    IF N = 0 THEN sel
    ELSE DownUp(prev_item(next_item(sel, n), n), n, N - 1)

\* the cursor after N round trips, a step back then a step forward
RECURSIVE UpDown(_, _, _)
UpDown(sel, n, N) ==
    IF N = 0 THEN sel
    ELSE UpDown(next_item(prev_item(sel, n), n), n, N - 1)

\* C18: in every state of a session with a non-empty filtered list, N round
\* trips of the cursor, forward then back or back then forward, return it
\* to the value it had, for every N.
C18_RoundTripReturns ==
    (pc = "active" /\ last.rendered /\ num_of_items > 0)
    => \A N \in 0..MaxRounds :
         /\ DownUp(selected, num_of_items, N) = selected
         /\ UpDown(selected, num_of_items, N) = selected

\* C19: a character key press appends the character to the prompt, a
\* backspace press removes the last character of the prompt and leaves an
\* empty prompt empty; after either, start_index and selected are 0.
C19_PromptEditResetsScroll ==
    [][ /\ last'.ev = "Char"
          => /\ \E ch \in KeyChars : prompt' = prompt \o <<ch>>
             /\ start_index' = 0
             /\ selected' = 0
        /\ last'.ev = "Backspace"
          => /\ prompt' = IF prompt = <<>> THEN <<>>
                          ELSE SubSeq(prompt, 1, Len(prompt) - 1)
             /\ start_index' = 0
             /\ selected' = 0 ]_vars

C19_Witness ==
    /\ last.ev = "Backspace"
    /\ pc = "active"
    /\ prompt = <<"z">>
    /\ start_index = 0
    /\ selected = 0
    /\ end_index > height - 1

\* C20: a resize to a height of h >= 1 rows sets end_index to
\* start_index + h - 1 and leaves start_index, selected, the prompt and the
\* candidate list as they were.
C20_ResizeSetsEnd ==
    [][ (last'.ev = "Resize" /\ height' >= 1)
        => /\ end_index' = start_index + height' - 1
           /\ UNCHANGED <<start_index, selected, prompt, items>> ]_vars

C20_Witness ==
    /\ last.ev = "Resize"
    /\ pc = "active"
    /\ start_index > 0
    /\ height > 1
    /\ end_index = start_index + height - 1

=============================================================================
